---- MODULE Spec2Model ----
(***************************************************************************)
(* Model of pv_site_api/_db_helpers.py: the database helpers of the PV     *)
(* site API (forecast retrieval, generation retrieval, access checks).     *)
(*                                                                         *)
(* The relational store is read-only for these helpers: the tables are     *)
(* chosen in Init and never change.  Every helper is one action; what it   *)
(* was called with and what it returned (or raised) is recorded in `last`. *)
(* Where PostgreSQL leaves a result open (which row DISTINCT ON keeps      *)
(* among rows the ORDER BY does not separate, the order of rows of a query *)
(* without ORDER BY) the helper has a set of possible outcomes and the     *)
(* action takes any one of them.                                           *)
(***************************************************************************)
EXTENDS Integers, Sequences, FiniteSets, TLC

VARIABLES
    users,            \* identity source: email -> the sites of the user's site group
    forecasts,        \* table of forecast runs
    forecast_values,  \* table of forecast values
    generation,       \* table of generation readings
    last,             \* the call in progress: helper, arguments, outcome
    previous          \* outcome of the same call made just before, if any

vars == <<users, forecasts, forecast_values, generation, last, previous>>

tables == <<users, forecasts, forecast_values, generation>>

(***************************************************************************)
(* Bounds of the model.                                                    *)
(***************************************************************************)
\* timestamps are 0..MaxTime
MaxTime == 2
\* at most MaxRuns rows in the forecasts table
MaxRuns == 2
\* at most MaxValues rows in the forecast_values table
MaxValues == 2
\* at most MaxReadings rows in the generation table
MaxReadings == 2
\* a request names at most MaxReq sites
MaxReq == 2

Times == 0 .. MaxTime
\* site identities (the UUID values of SiteSQL.site_uuid), in UUID order
SiteUUIDs == {1, 2}
\* prediction horizons, in minutes
Horizons == {1, 2}
\* the callers known to the identity source
Emails == {"u1", "u2"}
\* start_utc omitted (no timestamp is negative)
None == -1

(***************************************************************************)
(* Site identifier strings.  A request carries strings; the store holds    *)
(* UUID values.  A string is the canonical (lower-case) text of a UUID,    *)
(* its upper-case spelling, or a text that is no UUID at all.              *)
(***************************************************************************)
Malformed == [form |-> "malformed", id |-> 0]

SiteStrings ==
    {[form |-> f, id |-> u] : f \in {"canonical", "upper"}, u \in SiteUUIDs}
        \cup {Malformed}

\* str(site.site_uuid): the canonical text of a UUID value
str(u) == [form |-> "canonical", id |-> u]

\* whether uuid.UUID(su) accepts the string (it raises ValueError otherwise)
IsUUIDText(su) == su.form \in {"canonical", "upper"}

\* uuid.UUID(su) of an accepted string: both spellings denote the same UUID
UUID(su) == su.id

\* Python's order on these strings: upper-case letters sort before
\* lower-case ones, and the malformed text ("not-a-uuid") after the hex ones
StrKey(s) ==
    CASE s.form = "upper" -> s.id
      [] s.form = "canonical" -> 10 + s.id
      [] OTHER -> 100

RECURSIVE InsertSorted(_, _)
InsertSorted(x, s) ==
    IF s = <<>> THEN <<x>>
    ELSE IF StrKey(x) < StrKey(Head(s)) THEN <<x>> \o s
    ELSE <<Head(s)>> \o InsertSorted(x, Tail(s))

\* sorted(list)
RECURSIVE sorted(_)
sorted(s) == IF s = <<>> THEN <<>> ELSE InsertSorted(Head(s), sorted(Tail(s)))

\* x in list
In(x, s) == \E i \in 1 .. Len(s) : s[i] = x

Elems(s) == {s[i] : i \in 1 .. Len(s)}

\* the lists of at most n elements of S
SeqsUpTo(S, n) == UNION {[1 .. k -> S] : k \in 0 .. n}

\* the lists the access checks' site_uuids is drawn from
SiteUuidLists == SeqsUpTo(SiteStrings, MaxReq)

\* the lists the retrieval helpers' site_uuids is drawn from.  These helpers
\* only parse a string or hand it to the store, which casts it, so the two
\* spellings of a UUID act alike and the canonical one stands for both.
FetchSiteUuidLists ==
    SeqsUpTo({su \in SiteStrings : su.form # "upper"}, MaxReq)

(***************************************************************************)
(* The identity source: user -> site group -> sites.                       *)
(***************************************************************************)
\* user.site_group.sites: a list of distinct sites, in the store's order
SiteGroups == {s \in SeqsUpTo(SiteUUIDs, Cardinality(SiteUUIDs)) :
                 \A i, j \in 1 .. Len(s) : i # j => s[i] # s[j]}

\* [str(site.site_uuid) for site in user.site_group.sites]
UserSiteUuids(email) == [i \in 1 .. Len(users[email]) |-> str(users[email][i])]

\* no call is in progress
NoCall == [op |-> "none"]

\* no call came before the one in progress
NoOutcome == [kind |-> "none"]

Returned == [kind |-> "returned"]

Forbidden(email, site_uuid, site_uuids) ==
    [kind |-> "HTTPException", status_code |-> 403,
     detail |-> [email |-> email, site |-> site_uuid, access |-> site_uuids]]

\* mutant: the membership test looks at the first entitled site only
check_site_first_only(email, site_uuid) ==
    LET site_uuids == UserSiteUuids(email) IN
    IF site_uuids = <<>> \/ site_uuid # site_uuids[1]
    THEN Forbidden(email, site_uuid, site_uuids)
    ELSE Returned

\* mutant: the detail reports the denied site in place of the entitled set
check_site_wrong_detail(email, site_uuid) ==
    LET site_uuids == UserSiteUuids(email) IN
    IF ~In(site_uuid, site_uuids)
    THEN Forbidden(email, site_uuid, <<site_uuid>>)
    ELSE Returned

check_user_has_access_to_site(email, site_uuid) ==
    LET site_uuids == UserSiteUuids(email) IN
    IF ~In(site_uuid, site_uuids)
    THEN Forbidden(email, site_uuid, site_uuids)
    ELSE Returned

check_user_has_access_to_sites(email, requested) ==
    LET user_site_uuids == sorted(UserSiteUuids(email))
        site_uuids == sorted(requested)
        \* the loop's test compares each requested site with the requested list
        denied == {i \in 1 .. Len(site_uuids) : ~In(site_uuids[i], site_uuids)}
        first == CHOOSE i \in denied : \A j \in denied : i <= j
    IN  IF user_site_uuids # site_uuids /\ denied # {}
        THEN Forbidden(email, site_uuids[first], site_uuids)
        ELSE Returned

(***************************************************************************)
(* Actions of the access authorizer.                                       *)
(***************************************************************************)
Call_check_user_has_access_to_site ==
    /\ last = NoCall
    /\ \E email \in Emails, site_uuid \in SiteStrings :
        /\ last' = [op |-> "check_user_has_access_to_site", email |-> email,
                    site_uuid |-> site_uuid,
                    outcome |-> check_user_has_access_to_site(email, site_uuid)]
        /\ UNCHANGED <<tables, previous>>

Call_check_user_has_access_to_sites ==
    /\ last = NoCall
    /\ \E email \in Emails, site_uuids \in SiteUuidLists :
        /\ last' = [op |-> "check_user_has_access_to_sites", email |-> email,
                    site_uuids |-> site_uuids,
                    outcome |-> check_user_has_access_to_sites(email, site_uuids)]
        /\ UNCHANGED <<tables, previous>>

\* the call returns (or raises) to its caller: nothing of it is kept
Return ==
    /\ last # NoCall
    /\ last' = NoCall
    /\ previous' = NoOutcome
    /\ UNCHANGED tables

AuthInit ==
    /\ users \in [Emails -> SiteGroups]
    /\ forecasts = {}
    /\ forecast_values = {}
    /\ generation = {}
    /\ last = NoCall
    /\ previous = NoOutcome

AuthNext ==
    \/ Call_check_user_has_access_to_site
    \/ Call_check_user_has_access_to_sites
    \/ Return

AuthSpec == AuthInit /\ [][AuthNext]_vars

(***************************************************************************)
(* The forecast tables.                                                    *)
(*   forecasts       : rows of ForecastSQL      (one per forecast run)     *)
(*   forecast_values : rows of ForecastValueSQL (many per forecast run)    *)
(***************************************************************************)
ForecastRow(i, site, ts) ==
    [forecast_uuid |-> i, site_uuid |-> site, timestamp_utc |-> ts]

\* the tables of n runs; the runs are numbered in (site, issuance time) order,
\* which loses nothing: the helpers never read forecast_uuid but to join
ForecastTablesOf(n) ==
    {{ForecastRow(i, f[i][1], f[i][2]) : i \in 1 .. n} :
        f \in {g \in [1 .. n -> SiteUUIDs \X Times] :
                 \A i, j \in 1 .. n :
                    i < j => \/ g[i][1] < g[j][1]
                             \/ g[i][1] = g[j][1] /\ g[i][2] <= g[j][2]}}

ForecastTables == UNION {ForecastTablesOf(n) : n \in 0 .. MaxRuns}

ForecastValueTables(F) ==
    {V \in SUBSET [forecast_uuid : {f.forecast_uuid : f \in F},
                   start_utc : Times, horizon_minutes : Horizons] :
        Cardinality(V) <= MaxValues}

\* a result row of a query over (ForecastSQL, ForecastValueSQL)
Row(f, v) == [forecast |-> f, value |-> v]

\* the join of the two tables on forecast_uuid
Joined ==
    {r \in {Row(f, v) : f \in forecasts, v \in forecast_values} :
        r.value.forecast_uuid = r.forecast.forecast_uuid}

\* the sequences that list every element of the finite set S once
Orderings(S) ==
    {s \in [1 .. Cardinality(S) -> S] :
        \A i, j \in 1 .. Cardinality(S) : i # j => s[i] # s[j]}

\* a statement the storage engine rejects: a text that is no UUID compared
\* with a UUID column
DataError(n) == [kind |-> "DataError", queries |-> n]

\* uuid.UUID(su) of a text that is no UUID
ValueError(n) == [kind |-> "ValueError", queries |-> n]

Rows(rows, n) == [kind |-> "rows", rows |-> rows, queries |-> n]

(***************************************************************************)
(* _get_forecasts_for_horizon                                              *)
(***************************************************************************)
\* mutant: the window on the value's target start is closed at end_utc
horizon_where_closed_end(r, sites, start_utc, end_utc, horizon_minutes) ==
    /\ r.forecast.site_uuid \in sites
    /\ r.forecast.timestamp_utc >= start_utc - horizon_minutes
    /\ r.forecast.timestamp_utc < end_utc
    /\ r.value.horizon_minutes = horizon_minutes
    /\ r.value.start_utc >= start_utc
    /\ r.value.start_utc <= end_utc

\* the WHERE clauses of the statement
horizon_where(r, sites, start_utc, end_utc, horizon_minutes) ==
    /\ r.forecast.site_uuid \in sites
    /\ r.forecast.timestamp_utc >= start_utc - horizon_minutes
    /\ r.forecast.timestamp_utc < end_utc
    /\ r.value.horizon_minutes = horizon_minutes
    /\ r.value.start_utc >= start_utc
    /\ r.value.start_utc < end_utc

\* the columns of DISTINCT ON and of ORDER BY: (site_uuid, timestamp_utc)
horizon_key(r) == <<r.forecast.site_uuid, r.forecast.timestamp_utc>>

KeyLess(a, b) == a[1] < b[1] \/ (a[1] = b[1] /\ a[2] < b[2])

\* mutant: no DISTINCT ON, every row of the statement comes out, in key order
without_distinct_on(Q) ==
    {s \in Orderings(Q) :
        \A i, j \in 1 .. Len(s) :
            i < j => ~KeyLess(horizon_key(s[j]), horizon_key(s[i]))}

\* DISTINCT ON keeps one row of each group of rows with equal key; the
\* ORDER BY names the key only, so which row of a group comes first, and is
\* kept, is open.  The kept rows come out in key order.
distinct_on_key(Q) ==
    LET keys == {horizon_key(r) : r \in Q}
        picks == {c \in [keys -> Q] : \A k \in keys : horizon_key(c[k]) = k}
    IN  {s \in UNION {Orderings({c[k] : k \in keys}) : c \in picks} :
            \A i, j \in 1 .. Len(s) :
                i < j => KeyLess(horizon_key(s[i]), horizon_key(s[j]))}

\* the possible outcomes of the call; `n` statements were sent before it
_get_forecasts_for_horizon(site_uuids, start_utc, end_utc, horizon_minutes, n) ==
    IF \E su \in Elems(site_uuids) : ~IsUUIDText(su)
    THEN {DataError(n + 1)}
    ELSE LET sites == {UUID(su) : su \in Elems(site_uuids)}
             Q == {r \in Joined :
                     horizon_where(r, sites, start_utc, end_utc, horizon_minutes)}
         IN  {Rows(s, n + 1) : s \in distinct_on_key(Q)}

(***************************************************************************)
(* _get_latest_forecast_by_sites                                           *)
(***************************************************************************)
\* mutant: the subquery orders by timestamp_utc ascending, keeping an oldest run
oldest_subquery(sites) ==
    LET F == {f \in forecasts : f.site_uuid \in sites}
        with == {f.site_uuid : f \in F}
    IN  {c \in [with -> F] :
            \A s \in with :
                /\ c[s].site_uuid = s
                /\ \A f \in F : f.site_uuid = s =>
                                   f.timestamp_utc >= c[s].timestamp_utc}

\* the subquery: DISTINCT ON (site_uuid) ORDER BY site_uuid, timestamp_utc
\* DESC keeps, for each site, one of its runs of greatest issuance time
latest_subquery(sites) ==
    LET F == {f \in forecasts : f.site_uuid \in sites}
        with == {f.site_uuid : f \in F}
    IN  {c \in [with -> F] :
            \A s \in with :
                /\ c[s].site_uuid = s
                /\ \A f \in F : f.site_uuid = s =>
                                   f.timestamp_utc <= c[s].timestamp_utc}

\* the join with the values, and the filter on start_utc when it is given
latest_rows(c, start_utc) ==
    {r \in Joined :
        /\ r.forecast \in {c[s] : s \in DOMAIN c}
        /\ (start_utc # None => r.value.start_utc >= start_utc)}

\* the possible outcomes of the call.  The list of uuid.UUID(su) is built
\* before the statement is sent.  The result of query.order_by(...) is
\* dropped, so the rows come in any order.
_get_latest_forecast_by_sites(site_uuids, start_utc, n) ==
    IF \E su \in Elems(site_uuids) : ~IsUUIDText(su)
    THEN {ValueError(n)}
    ELSE LET sites == {UUID(su) : su \in Elems(site_uuids)} IN
         {Rows(s, n + 1) :
            s \in UNION {Orderings(latest_rows(c, start_utc)) :
                           c \in latest_subquery(sites)}}

(***************************************************************************)
(* get_forecasts_by_sites                                                  *)
(***************************************************************************)
Converter(compact) ==
    IF compact THEN "forecast_rows_to_pydantic_compact"
    ELSE "forecast_rows_to_pydantic"

\* mutant: the forward rows come first
merge_future_first(rows_past, rows_future) == rows_future \o rows_past

\* rows_past + rows_future
merge_rows(rows_past, rows_future) == rows_past \o rows_future

\* the possible outcomes of the call; `now` is dt.datetime.utcnow()
get_forecasts_by_sites(site_uuids, start_utc, horizon_minutes, compact, now) ==
    LET end_utc == now
        past == _get_forecasts_for_horizon(site_uuids, start_utc, end_utc,
                                          horizon_minutes, 0)
    IN  UNION {
          IF p.kind # "rows" THEN {p}
          ELSE {IF f.kind # "rows" THEN f
                ELSE [kind |-> "returned", queries |-> f.queries,
                      rows_past |-> p.rows, rows_future |-> f.rows,
                      converter |-> Converter(compact),
                      converter_input |-> merge_rows(p.rows, f.rows)] :
                  f \in _get_latest_forecast_by_sites(site_uuids, start_utc, p.queries)}
          : p \in past}

(***************************************************************************)
(* Actions of the forecast retrieval.                                      *)
(***************************************************************************)
Call_get_forecasts_for_horizon ==
    /\ last = NoCall
    /\ \E site_uuids \in FetchSiteUuidLists, start_utc \in Times, end_utc \in Times,
       horizon_minutes \in Horizons :
        \E out \in _get_forecasts_for_horizon(site_uuids, start_utc, end_utc,
                                             horizon_minutes, 0) :
            /\ last' = [op |-> "_get_forecasts_for_horizon",
                        site_uuids |-> site_uuids, start_utc |-> start_utc,
                        end_utc |-> end_utc, horizon_minutes |-> horizon_minutes,
                        outcome |-> out]
            /\ UNCHANGED <<tables, previous>>

Call_get_latest_forecast_by_sites ==
    /\ last = NoCall
    /\ \E site_uuids \in FetchSiteUuidLists, start_utc \in Times \cup {None} :
        \E out \in _get_latest_forecast_by_sites(site_uuids, start_utc, 0) :
            /\ last' = [op |-> "_get_latest_forecast_by_sites",
                        site_uuids |-> site_uuids, start_utc |-> start_utc,
                        outcome |-> out]
            /\ UNCHANGED <<tables, previous>>

Call_get_forecasts_by_sites ==
    /\ last = NoCall
    /\ \E site_uuids \in FetchSiteUuidLists, start_utc \in Times,
       horizon_minutes \in Horizons, compact \in BOOLEAN, now \in Times :
        \E out \in get_forecasts_by_sites(site_uuids, start_utc, horizon_minutes,
                                          compact, now) :
            /\ last' = [op |-> "get_forecasts_by_sites",
                        site_uuids |-> site_uuids, start_utc |-> start_utc,
                        horizon_minutes |-> horizon_minutes, compact |-> compact,
                        now |-> now, outcome |-> out]
            /\ UNCHANGED <<tables, previous>>

\* the same fetch again: same helper, same arguments, same tables
Repeat_get_forecasts_for_horizon ==
    /\ last.op = "_get_forecasts_for_horizon"
    /\ previous = NoOutcome
    /\ \E out \in _get_forecasts_for_horizon(last.site_uuids, last.start_utc,
                      last.end_utc, last.horizon_minutes, 0) :
            last' = [last EXCEPT !.outcome = out]
    /\ previous' = last.outcome
    /\ UNCHANGED tables

Repeat_get_latest_forecast_by_sites ==
    /\ last.op = "_get_latest_forecast_by_sites"
    /\ previous = NoOutcome
    /\ \E out \in _get_latest_forecast_by_sites(last.site_uuids, last.start_utc, 0) :
            last' = [last EXCEPT !.outcome = out]
    /\ previous' = last.outcome
    /\ UNCHANGED tables

(***************************************************************************)
(* get_generation_by_sites                                                 *)
(***************************************************************************)
GenerationTables ==
    {G \in SUBSET [site_uuid : SiteUUIDs, start_utc : Times] :
        Cardinality(G) <= MaxReadings}

\* pvsite_datamodel's get_pv_generation_by_sites: the readings of the given
\* sites at or after start_utc, with one statement
get_pv_generation_by_sites(start_utc, sites) ==
    Orderings({g \in generation : g.site_uuid \in sites /\ g.start_utc >= start_utc})

GenerationConverter(compact) ==
    IF compact THEN "generation_rows_to_pydantic_compact"
    ELSE "generation_rows_to_pydantic"

\* the possible outcomes of the call.  The list of uuid.UUID(su) is an
\* argument of the fetch: it is built before the fetch is entered.
get_generation_by_sites(site_uuids, start_utc, compact) ==
    IF \E su \in Elems(site_uuids) : ~IsUUIDText(su)
    THEN {ValueError(0)}
    ELSE {[kind |-> "returned", queries |-> 1,
           converter |-> GenerationConverter(compact), converter_input |-> rows] :
            rows \in get_pv_generation_by_sites(start_utc,
                        {UUID(su) : su \in Elems(site_uuids)})}

Call_get_generation_by_sites ==
    /\ last = NoCall
    /\ \E site_uuids \in FetchSiteUuidLists, start_utc \in Times, compact \in BOOLEAN :
        \E out \in get_generation_by_sites(site_uuids, start_utc, compact) :
            /\ last' = [op |-> "get_generation_by_sites",
                        site_uuids |-> site_uuids, start_utc |-> start_utc,
                        compact |-> compact, outcome |-> out]
            /\ UNCHANGED <<tables, previous>>

(***************************************************************************)
(* Specifications.  The tables are read-only, so each specification fixes  *)
(* them in its initial state and then runs the helpers it is about.        *)
(***************************************************************************)
NoUsers == [e \in Emails |-> <<>>]

\* the forecast tables hold any runs and values within the bounds
ForecastInit ==
    /\ users = NoUsers
    /\ forecasts \in ForecastTables
    /\ forecast_values \in ForecastValueTables(forecasts)
    /\ generation = {}
    /\ last = NoCall
    /\ previous = NoOutcome

\* the historical slice on its own
HorizonNext ==
    \/ Call_get_forecasts_for_horizon
    \/ Repeat_get_forecasts_for_horizon
    \/ Return

HorizonSpec == ForecastInit /\ [][HorizonNext]_vars

\* the forward slice on its own
LatestNext ==
    \/ Call_get_latest_forecast_by_sites
    \/ Repeat_get_latest_forecast_by_sites
    \/ Return

LatestSpec == ForecastInit /\ [][LatestNext]_vars

\* the generation retriever
GenerationInit ==
    /\ users = NoUsers
    /\ forecasts = {}
    /\ forecast_values = {}
    /\ generation \in GenerationTables
    /\ last = NoCall
    /\ previous = NoOutcome

GenerationNext ==
    \/ Call_get_generation_by_sites
    \/ Return

GenerationSpec == GenerationInit /\ [][GenerationNext]_vars

\* the merged forecast retrieval
Init == ForecastInit

Next ==
    \/ Call_get_forecasts_by_sites
    \/ Return

Spec == Init /\ [][Next]_vars

(***************************************************************************)
(* Access authorizer: properties, checked under AuthSpec.                  *)
(***************************************************************************)
\* the caller's entitled set, as site identifier strings
Entitled(email) == Elems(UserSiteUuids(email))

IsForbidden(outcome) ==
    outcome.kind = "HTTPException" /\ outcome.status_code = 403

\* C1: whenever the requested list of check_user_has_access_to_sites holds a
\* site (a well-formed identifier) that is not in the caller's entitled set,
\* the check fails with the 403 Forbidden error.
C1_OutsideEntitledIsForbidden ==
    (/\ last.op = "check_user_has_access_to_sites"
     /\ \E su \in Elems(last.site_uuids) :
            su.form = "canonical" /\ su \notin Entitled(last.email))
        => IsForbidden(last.outcome)

\* C2: check_user_has_access_to_sites returns normally when the sorted
\* requested list equals the sorted entitled list, and fails with the 403
\* Forbidden error when the requested sites are a (non-empty) strict subset
\* of the entitled set.
C2_ExactMatchPolicy ==
    last.op = "check_user_has_access_to_sites" =>
        /\ sorted(last.site_uuids) = sorted(UserSiteUuids(last.email))
              => last.outcome = Returned
        /\ (/\ last.site_uuids # <<>>
            /\ Elems(last.site_uuids) \subseteq Entitled(last.email)
            /\ Elems(last.site_uuids) # Entitled(last.email))
              => IsForbidden(last.outcome)

\* C3: check_user_has_access_to_site returns normally exactly when the
\* requested site is in the caller's entitled set; otherwise it fails with
\* 403 Forbidden, and the detail carries the caller's email, the denied site
\* and the caller's own list of entitled sites.
C3_SingleSiteCheck ==
    last.op = "check_user_has_access_to_site" =>
        IF last.site_uuid \in Entitled(last.email)
        THEN last.outcome = Returned
        ELSE /\ IsForbidden(last.outcome)
             /\ last.outcome.detail.email = last.email
             /\ last.outcome.detail.site = last.site_uuid
             /\ last.outcome.detail.access = UserSiteUuids(last.email)

\* C3's case: a caller entitled to some sites is denied another, well-formed
\* site, while another caller is entitled to different sites
C3_Witness ==
    /\ last.op = "check_user_has_access_to_site"
    /\ IsForbidden(last.outcome)
    /\ last.site_uuid.form = "canonical"
    /\ users[last.email] # <<>>
    /\ \E e \in Emails : Elems(users[e]) # Elems(users[last.email])

(***************************************************************************)
(* Forecast-horizon fetcher: properties, checked under HorizonSpec.        *)
(***************************************************************************)
\* the sites a list of well-formed site identifier strings names
Requested(site_uuids) == {UUID(su) : su \in Elems(site_uuids)}

HorizonReturned ==
    last.op = "_get_forecasts_for_horizon" /\ last.outcome.kind = "rows"

\* the contract of section 4.1 for one (run, value) pair and the call in `last`
Qualifies(r) ==
    /\ r.forecast.site_uuid \in Requested(last.site_uuids)
    /\ r.value.horizon_minutes = last.horizon_minutes
    /\ last.start_utc <= r.value.start_utc
    /\ r.value.start_utc < last.end_utc
    /\ last.start_utc - last.horizon_minutes <= r.forecast.timestamp_utc
    /\ r.forecast.timestamp_utc < last.end_utc

\* C4: every row _get_forecasts_for_horizon returns is a stored (run, value)
\* pair with the run's site among the requested sites, the value's horizon
\* exactly H, the value's target start in [start, end) and the run's issuance
\* time in [start - H, end).
C4_HorizonRowsQualify ==
    HorizonReturned =>
        \A i \in 1 .. Len(last.outcome.rows) :
            /\ last.outcome.rows[i] \in Joined
            /\ Qualifies(last.outcome.rows[i])

\* C4's case: a row is returned while the store holds, for a requested site,
\* a pair the window or the horizon excludes
C4_Witness ==
    /\ HorizonReturned
    /\ last.outcome.rows # <<>>
    /\ \E r \in Joined :
        /\ r.forecast.site_uuid \in Requested(last.site_uuids)
        /\ ~Qualifies(r)

\* C5: in the rows _get_forecasts_for_horizon returns, no two rows share the
\* (site, issuance timestamp) pair, and every pair for which a qualifying
\* (run, value) row is stored has exactly one row.
C5_OneRowPerSiteAndTimestamp ==
    HorizonReturned =>
        LET rows == last.outcome.rows IN
        /\ \A i, j \in 1 .. Len(rows) :
              horizon_key(rows[i]) = horizon_key(rows[j]) => i = j
        /\ \A r \in Joined :
              Qualifies(r) =>
                  \E i \in 1 .. Len(rows) : horizon_key(rows[i]) = horizon_key(r)

\* C5's case: two runs of one site with one issuance timestamp both hold a
\* qualifying value, and the call has returned
C5_Witness ==
    /\ HorizonReturned
    /\ \E r1, r2 \in Joined :
        /\ r1.forecast # r2.forecast
        /\ horizon_key(r1) = horizon_key(r2)
        /\ Qualifies(r1)
        /\ Qualifies(r2)

(***************************************************************************)
(* Latest-forecast fetcher: properties, checked under LatestSpec.          *)
(***************************************************************************)
LatestReturned ==
    last.op = "_get_latest_forecast_by_sites" /\ last.outcome.kind = "rows"

RunsOf(site) == {f \in forecasts : f.site_uuid = site}

\* the values of run f with target start >= start_utc (all, when omitted)
ValuesFrom(f, start_utc) ==
    {Row(f, v) : v \in {w \in forecast_values :
                          /\ w.forecast_uuid = f.forecast_uuid
                          /\ (start_utc = None \/ w.start_utc >= start_utc)}}

\* C6: for every requested site with a forecast run, the rows
\* _get_latest_forecast_by_sites returns for the site are exactly the values,
\* with target start >= start_utc (all when it is omitted), of one run of
\* the site of greatest issuance timestamp; no row is of a site that was not
\* requested, and no row comes twice.
C6_LatestRunOnly ==
    LatestReturned =>
        LET rows == last.outcome.rows IN
        /\ \A i, j \in 1 .. Len(rows) : rows[i] = rows[j] => i = j
        /\ \A i \in 1 .. Len(rows) :
              rows[i].forecast.site_uuid \in Requested(last.site_uuids)
        /\ \A site \in Requested(last.site_uuids) :
              RunsOf(site) # {} =>
                  \E f \in RunsOf(site) :
                      /\ \A g \in RunsOf(site) : g.timestamp_utc <= f.timestamp_utc
                      /\ {r \in Elems(rows) : r.forecast.site_uuid = site}
                            = ValuesFrom(f, last.start_utc)

\* C6's case: a requested site has an older and a newer run, each with a
\* value that passes the filter on start_utc, and rows are returned
C6_Witness ==
    /\ LatestReturned
    /\ last.outcome.rows # <<>>
    /\ \E f, g \in forecasts :
        /\ f.site_uuid = g.site_uuid
        /\ f.site_uuid \in Requested(last.site_uuids)
        /\ f.timestamp_utc < g.timestamp_utc
        /\ ValuesFrom(f, last.start_utc) # {}
        /\ ValuesFrom(g, last.start_utc) # {}

\* the runs whose values a fetch returned
RunsIn(outcome) == {r.forecast : r \in Elems(outcome.rows)}

\* C10: a fetch repeated with the same arguments over the same tables
\* selects the same runs as the fetch before it.
C10_RepeatSelectsSameRuns ==
    (previous.kind = "rows" /\ last.outcome.kind = "rows")
        => RunsIn(last.outcome) = RunsIn(previous)

(***************************************************************************)
(* Merged forecast retrieval: properties, checked under Spec.              *)
(***************************************************************************)
MergeReturned ==
    last.op = "get_forecasts_by_sites" /\ last.outcome.kind = "returned"

\* C7: the sequence get_forecasts_by_sites hands to the reshape converter is
\* a result of the forecast-horizon fetcher for [start_utc, now) followed by
\* a result of the latest-forecast fetcher for start_utc, nothing added,
\* dropped or reordered, and the converter is the one `compact` selects.
C7_HistoricalThenForward ==
    MergeReturned =>
        /\ last.outcome.converter =
              IF last.compact THEN "forecast_rows_to_pydantic_compact"
              ELSE "forecast_rows_to_pydantic"
        /\ \E p \in _get_forecasts_for_horizon(last.site_uuids, last.start_utc,
                        last.now, last.horizon_minutes, 0) :
           \E f \in _get_latest_forecast_by_sites(last.site_uuids, last.start_utc, 0) :
              /\ p.rows = last.outcome.rows_past
              /\ f.rows = last.outcome.rows_future
              /\ last.outcome.converter_input = p.rows \o f.rows

\* C7's case: both slices are non-empty and differ, so their order shows
C7_Witness ==
    /\ MergeReturned
    /\ last.outcome.rows_past # <<>>
    /\ last.outcome.rows_future # <<>>
    /\ last.outcome.rows_past # last.outcome.rows_future

\* C8: when an element of site_uuids is no UUID, get_forecasts_by_sites and
\* get_generation_by_sites fail, and no statement has been sent to the store
\* before the failure.
C8_MalformedFailsBeforeQuery ==
    (/\ last.op \in {"get_forecasts_by_sites", "get_generation_by_sites"}
     /\ \E su \in Elems(last.site_uuids) : ~IsUUIDText(su))
        => (last.outcome.kind # "returned" /\ last.outcome.queries = 0)

\* the store as a forecast writer leaves it: a value's horizon is the time
\* from its run's issuance to its target start
HorizonsConsistent ==
    \A r \in Joined :
        r.value.start_utc = r.forecast.timestamp_utc + r.value.horizon_minutes

\* C9: no (run, value) pair is both in the historical rows and in the
\* forward rows of one call of get_forecasts_by_sites (stated for the stores
\* with consistent horizons, of which it fails already).
C9_SlicesDisjoint ==
    (MergeReturned /\ HorizonsConsistent) =>
        Elems(last.outcome.rows_past) \cap Elems(last.outcome.rows_future) = {}

====
